---- MODULE Spec2Model ----
(***************************************************************************)
(* A model of font_optimise.py (Fontimize): the character collector, the   *)
(* range compressor, the range-token formatter and the optimise_fonts      *)
(* orchestrator with its three entry points.                               *)
(*                                                                         *)
(* Characters are their codepoints (ord).  Python strings that the code    *)
(* builds (tokens, directives) are sequences of one-character strings.     *)
(* A charPair is the tuple <<first, second>>.                              *)
(***************************************************************************)
EXTENDS Integers, Sequences, FiniteSets, TLC

VARIABLES
    \* ---- direct calls of the pure functions (SpecRanges) ----
    s,            \* the argument: a str / a list of characters
    op,           \* which call has been made last
    characters,   \* result of get_used_characters_in_str
    chars,        \* the list handed to _get_char_ranges (sorted in place by it)
    char_ranges,  \* result of _get_char_ranges: [raised, ranges]
    tokens,       \* r.get_range() of every range
    directive,    \* ', '.join(tokens)
    again,        \* result of _get_char_ranges on the re-expanded ranges
    \* ---- one call of an optimise_fonts entry point (SpecOpt) ----
    entry,        \* the entry point the caller invoked
    args,         \* the caller's arguments
    params,       \* the parameters optimise_fonts itself was given
    uranges,      \* [subsetname, range expression] (line 95)
    pc,           \* position in optimise_fonts
    i,            \* index of the next font of the for loop
    log,          \* calls made to TTF2Web so far, with what each returned
    res,          \* dict font -> generated font, as a set of <<key, value>>
    sums,         \* <<sum_orig, sum_new>> of the verbose report
    outcome       \* "running", "returned" or the exception raised

rangeVars == <<s, op, characters, chars, char_ranges, tokens, directive, again>>
optVars == <<entry, args, params, uranges, pc, i, log, res, sums, outcome>>
vars == <<s, op, characters, chars, char_ranges, tokens, directive, again,
          entry, args, params, uranges, pc, i, log, res, sums, outcome>>

(***************************************************************************)
(* Bounds and program constants                                            *)
(***************************************************************************)
MaxLen == 4         \* longest argument list / string of a direct call
MaxTexts == 2       \* most texts / html documents in one call
MaxFonts == 2       \* most font references in one call

Space == 32         \* " "
MaxCodepoint == 1114111   \* chr() raises ValueError above 0x10FFFF
MinDigits == 4      \* zfill(4)

\* ' ', 'A', 'a', 'b', 'c', 'z', U+10FFFE, U+10FFFF
Alphabet == {32, 65, 97, 98, 99, 122, 1114110, 1114111}

RECURSIVE SeqsUpTo(_, _)
SeqsUpTo(S, n) ==
    IF n = 0 THEN {<<>>}
    ELSE LET shorter == SeqsUpTo(S, n - 1)
         IN  shorter \cup {Append(q, x) : q \in shorter, x \in S}

Elems(q) == {q[k] : k \in DOMAIN q}

\* some list of the elements of a set
SetToSeq(S) == CHOOSE f \in [1..Cardinality(S) -> S] : \A x \in S : \E k \in DOMAIN f : f[k] = x

\* every ordering of a set as a list (list(set) has no defined order)
RECURSIVE Orderings(_)
Orderings(S) ==
    IF S = {} THEN {<<>>}
    ELSE UNION {{<<x>> \o q : q \in Orderings(S \ {x})} : x \in S}

(***************************************************************************)
(* _get_unicode_string                                                     *)
(***************************************************************************)
HexDigits == <<"0", "1", "2", "3", "4", "5", "6", "7",
               "8", "9", "a", "b", "c", "d", "e", "f">>

\* hex(n): "0x" and the lowercase digits, no padding
RECURSIVE HexDigitsOf(_)
HexDigitsOf(n) ==
    IF n < 16 THEN <<HexDigits[n + 1]>>
    ELSE Append(HexDigitsOf(n \div 16), HexDigits[(n % 16) + 1])

PyHex(n) == <<"0", "x">> \o HexDigitsOf(n)

UpperChar(ch) ==
    CASE ch = "a" -> "A" [] ch = "b" -> "B" [] ch = "c" -> "C"
      [] ch = "d" -> "D" [] ch = "e" -> "E" [] ch = "f" -> "F"
      [] ch = "x" -> "X"
      [] OTHER -> ch

Upper(str) == [k \in DOMAIN str |-> UpperChar(str[k])]

RECURSIVE Zfill(_, _)
Zfill(str, width) ==
    IF Len(str) >= width THEN str ELSE Zfill(<<"0">> \o str, width)

GetUnicodeStringNoPad(char, withU) ==
    (IF withU THEN <<"U", "+">> ELSE <<>>)
        \o Upper(SubSeq(PyHex(char), 3, Len(PyHex(char))))

GetUnicodeString(char, withU) ==
    (IF withU THEN <<"U", "+">> ELSE <<>>)
        \o Zfill(Upper(SubSeq(PyHex(char), 3, Len(PyHex(char)))), MinDigits)

(***************************************************************************)
(* get_used_characters_in_str                                              *)
(***************************************************************************)
RECURSIVE AddAll(_, _, _)
AddAll(acc, str, k) ==
    IF k > Len(str) THEN acc ELSE AddAll(acc \cup {str[k]}, str, k + 1)

GetUsedCharactersInStrNoSeed(str) == AddAll({}, str, 1)

GetUsedCharactersInStr(str) == AddAll({Space}, str, 1)

(***************************************************************************)
(* charPair                                                                *)
(***************************************************************************)
charPair(first, second) == <<first, second>>

\* charPair.__eq__
PairEq(p, q) == p[1] = q[1] /\ p[2] = q[2]

GetRange(pair) ==
    IF pair[1] = pair[2] THEN GetUnicodeString(pair[1], TRUE)
    ELSE GetUnicodeString(pair[1], TRUE) \o <<"-">> \o GetUnicodeString(pair[2], FALSE)

(***************************************************************************)
(* _get_char_ranges                                                        *)
(***************************************************************************)
RECURSIVE InsertSorted(_, _)
InsertSorted(x, sorted) ==
    IF sorted = <<>> THEN <<x>>
    ELSE IF x < sorted[1] THEN <<x>> \o sorted
    ELSE <<sorted[1]>> \o InsertSorted(x, Tail(sorted))

RECURSIVE SortFrom(_, _, _)
SortFrom(list, k, acc) ==
    IF k > Len(list) THEN acc ELSE SortFrom(list, k + 1, InsertSorted(list[k], acc))

SortNot(list) == list

\* chars.sort()
Sort(list) == SortFrom(list, 1, <<>>)

\* chr(n) raises ValueError outside range(0x110000)
ChrRaises(n) == n > MaxCodepoint

ExpectedNextCharSkip(prev_seen) == prev_seen + 2

\* chr(ord(prev_seen) + 1)
ExpectedNextChar(prev_seen) == prev_seen + 1

\* the for loop over chars[1:]; k is the index of c in chars
RECURSIVE RangeLoop(_, _, _, _, _)
RangeLoop(list, k, first, prev_seen, acc) ==
    IF k > Len(list)
    THEN [raised |-> "", first |-> first, prev_seen |-> prev_seen, res |-> acc]
    ELSE IF ChrRaises(prev_seen + 1)
    THEN [raised |-> "ValueError", first |-> first, prev_seen |-> prev_seen, res |-> acc]
    ELSE LET c == list[k]
         IN  IF c # ExpectedNextChar(prev_seen)
             THEN RangeLoop(list, k + 1, c, c, Append(acc, charPair(first, prev_seen)))
             ELSE RangeLoop(list, k + 1, first, c, acc)

FinalAppendOnlyIfEmpty(acc, first, prev_seen) ==
    IF acc = <<>> THEN Append(acc, charPair(first, prev_seen)) ELSE acc

\* add final set if it hasn't been added yet
FinalAppend(acc, first, prev_seen) ==
    IF acc = <<>> \/ acc[Len(acc)][2] # prev_seen
    THEN Append(acc, charPair(first, prev_seen))
    ELSE acc

GetCharRanges(list) ==
    LET sorted == Sort(list)
    IN  IF sorted = <<>> THEN [raised |-> "", ranges |-> <<>>]
        ELSE LET l == RangeLoop(sorted, 2, sorted[1], sorted[1], <<>>)
             IN  IF l.raised # "" THEN [raised |-> l.raised, ranges |-> <<>>]
                 ELSE [raised |-> "",
                       ranges |-> FinalAppend(l.res, l.first, l.prev_seen)]

(***************************************************************************)
(* the range expression of line 95                                         *)
(***************************************************************************)
RECURSIVE Join(_, _)
Join(sep, strs) ==
    IF strs = <<>> THEN <<>>
    ELSE IF Len(strs) = 1 THEN strs[1]
    ELSE strs[1] \o sep \o Join(sep, Tail(strs))

RangeTokens(ranges) == [k \in DOMAIN ranges |-> GetRange(ranges[k])]

RangeExpression(ranges) == Join(<<",", " ">>, RangeTokens(ranges))

\* the codepoints a list of ranges covers (first..second, inclusive)
Expand(ranges) == UNION {ranges[k][1] .. ranges[k][2] : k \in DOMAIN ranges}

(***************************************************************************)
(* SpecRanges: direct calls of the pure functions on every small argument  *)
(***************************************************************************)
NoResult == [raised |-> "none", ranges |-> <<>>]

OptIdle ==
    /\ entry = "none"
    /\ args = <<>>
    /\ params = <<>>
    /\ uranges = <<>>
    /\ pc = "idle"
    /\ i = 0
    /\ log = <<>>
    /\ res = {}
    /\ sums = <<0, 0>>
    /\ outcome = "idle"

InitRanges ==
    /\ s \in SeqsUpTo(Alphabet, MaxLen)
    /\ op = "init"
    /\ characters = {}
    /\ chars = <<>>
    /\ char_ranges = NoResult
    /\ tokens = <<>>
    /\ directive = <<>>
    /\ again = NoResult
    /\ OptIdle

\* characters = get_used_characters_in_str(s)
CallGetUsedCharactersInStr ==
    /\ op = "init"
    /\ characters' = GetUsedCharactersInStr(s)
    /\ op' = "collected"
    /\ UNCHANGED <<s, chars, char_ranges, tokens, directive, again>>
    /\ UNCHANGED optVars

\* char_ranges = _get_char_ranges(chars) with chars = list(s)
CallGetCharRanges ==
    /\ op = "init"
    /\ chars' = Sort(s)
    /\ char_ranges' = GetCharRanges(s)
    /\ op' = "ranged"
    /\ UNCHANGED <<s, characters, tokens, directive, again>>
    /\ UNCHANGED optVars

\* ', '.join(r.get_range() for r in char_ranges)
CallGetRange ==
    /\ op = "ranged"
    /\ char_ranges.raised = ""
    /\ tokens' = RangeTokens(char_ranges.ranges)
    /\ directive' = RangeExpression(char_ranges.ranges)
    /\ op' = "formatted"
    /\ UNCHANGED <<s, characters, chars, char_ranges, again>>
    /\ UNCHANGED optVars

\* _get_char_ranges(list(covered)), covered being the set the ranges expand to
CallGetCharRangesAgain ==
    /\ op = "ranged"
    /\ char_ranges.raised = ""
    /\ again' \in {GetCharRanges(list) : list \in Orderings(Expand(char_ranges.ranges))}
    /\ op' = "reranged"
    /\ UNCHANGED <<s, characters, chars, char_ranges, tokens, directive>>
    /\ UNCHANGED optVars

NextRanges ==
    \/ CallGetUsedCharactersInStr
    \/ CallGetCharRanges
    \/ CallGetRange
    \/ CallGetCharRangesAgain

SpecRanges == InitRanges /\ [][NextRanges]_vars

(***************************************************************************)
(* optimise_fonts and its entry points                                     *)
(***************************************************************************)
\* a font reference is <<directory, file name>>
Fonts == {<<"fonts", "A.ttf">>, <<"", "B.ttf">>}

\* path.dirname(font)
Dirname(font) == font[1]

FontPaths == {"", "out"}
SubsetNames == {"FontimizeSubset", "Custom"}

\* the font files TTF2Web may report as generated
Outs == {"one.woff2", "two.woff2"}

\* path.getsize of a file
Sizes == {0, 2048}

\* a Python value handed on as subsetname: a str, or (by a positional slip) a bool
PyStr(v) == <<"str", v>>
PyBool(b) == <<"bool", IF b THEN "True" ELSE "False">>

\* in an html document, Tag stands for a piece of markup
Tag == 0

TextSamples == {<<>>, <<97>>, <<98, 97>>}
HtmlSamples == {<<Tag, 97, Tag>>, <<98, Tag>>}

\* BeautifulSoup(html, 'html.parser').get_text()
GetText(html) == SelectSeq(html, LAMBDA c : c # Tag)

RECURSIVE ConcatTexts(_, _, _)
\* text = ""; for t in texts: text = text + t
ConcatTexts(text, texts, k) ==
    IF k > Len(texts) THEN text ELSE ConcatTexts(text \o texts[k], texts, k + 1)

RECURSIVE ConcatHtml(_, _, _)
\* text = ""; for html in html_contents: text = text + soup.get_text()
ConcatHtml(text, html_contents, k) ==
    IF k > Len(html_contents) THEN text
    ELSE ConcatHtml(text \o GetText(html_contents[k]), html_contents, k + 1)

\* verbosity = 2 if verbose else 0
Verbosity(verbose) == IF verbose THEN 2 ELSE 0

\* lines 83-95: the subsetting directive for a text, with list(characters)
\* in the order `list`
Uranges(subsetname, list) ==
    <<subsetname, RangeExpression(GetCharRanges(list).ranges)>>

\* what t2w.generateWoff2 may return for one font: no file, one
\* [font, ranges] pair, two pairs, or one entry that is no pair
Woff2Lists(ranges) ==
    {<<>>} \cup {<<<<o, ranges>>>> : o \in Outs}
           \cup {<<<<"one.woff2", ranges>>, <<"two.woff2", ranges>>>>}
           \cup {<<<<"one.woff2">>>>}

AssertOneFileAtLeast(woff2_list) == Len(woff2_list) >= 1

\* assert len(woff2_list) == 1
AssertOneFile(woff2_list) == Len(woff2_list) = 1

\* assert len(woff2_list[0]) == 2
AssertPair(woff2_list) == Len(woff2_list[1]) = 2

StoreOnly(dict, font, woff2_list) == {<<font, woff2_list[1][1]>>}

\* res[font] = woff2_list[0][0]
Store(dict, font, woff2_list) ==
    {e \in dict : e[1] # font} \cup {<<font, woff2_list[1][1]>>}

RECURSIVE SumOver(_, _)
SumOver(sizes, files) ==
    IF files = <<>> THEN 0 ELSE sizes[files[1]] + SumOver(sizes, Tail(files))

\* _get_file_size_sum
GetFileSizeSum(sizes, files) == SumOver(sizes, files)

RangesIdle ==
    /\ s = <<>>
    /\ op = "idle"
    /\ characters = {}
    /\ chars = <<>>
    /\ char_ranges = NoResult
    /\ tokens = <<>>
    /\ directive = <<>>
    /\ again = NoResult

EntryPoints == {"optimise_fonts", "optimise_fonts_for_multiple_text",
                "optimise_fonts_for_html_contents"}

\* the first argument each entry point may be given
FirstArgs(e) ==
    CASE e = "optimise_fonts" -> {<<t>> : t \in TextSamples}
      [] e = "optimise_fonts_for_multiple_text" -> SeqsUpTo(TextSamples, MaxTexts)
      [] e = "optimise_fonts_for_html_contents" -> SeqsUpTo(HtmlSamples, MaxTexts)

InitOpt ==
    /\ RangesIdle
    /\ entry \in EntryPoints
    /\ \E texts \in FirstArgs(entry), fonts \in SeqsUpTo(Fonts, MaxFonts),
          fontpath \in FontPaths, subsetname \in SubsetNames, verbose \in BOOLEAN :
           args = [texts |-> texts, fonts |-> fonts, fontpath |-> fontpath,
                   subsetname |-> subsetname, verbose |-> verbose]
    /\ params = <<>>
    /\ uranges = <<>>
    /\ pc = "call"
    /\ i = 0
    /\ log = <<>>
    /\ res = {}
    /\ sums = <<0, 0>>
    /\ outcome = "running"

\* optimise_fonts up to the for loop (lines 81-100), given its parameters
Begin(text, fonts, fontpath, subsetname, verbose) ==
    /\ params' = [text |-> text, fonts |-> fonts, fontpath |-> fontpath,
                  subsetname |-> subsetname, verbose |-> verbose]
    /\ characters' = GetUsedCharactersInStr(text)
    /\ \E char_list \in Orderings(GetUsedCharactersInStr(text)) :
           /\ chars' = Sort(char_list)
           /\ char_ranges' = GetCharRanges(char_list)
           /\ uranges' = Uranges(subsetname, char_list)
    /\ res' = {}
    /\ i' = 1
    /\ pc' = "loop"
    /\ UNCHANGED <<s, op, tokens, directive, again, entry, args, log, sums, outcome>>

\* the caller calls optimise_fonts(text, fonts, fontpath, subsetname, verbose)
CallOptimiseFonts ==
    /\ pc = "call"
    /\ entry = "optimise_fonts"
    /\ Begin(args.texts[1], args.fonts, args.fontpath,
             PyStr(args.subsetname), args.verbose)

\* optimise_fonts_for_multiple_text: optimise_fonts(text, fonts, fontpath, verbose)
CallOptimiseFontsForMultipleText ==
    /\ pc = "call"
    /\ entry = "optimise_fonts_for_multiple_text"
    /\ Begin(ConcatTexts(<<>>, args.texts, 1), args.fonts, args.fontpath,
             PyBool(args.verbose), FALSE)

\* optimise_fonts_for_html_contents: optimise_fonts(text, fonts, fontpath, verbose)
CallOptimiseFontsForHtmlContents ==
    /\ pc = "call"
    /\ entry = "optimise_fonts_for_html_contents"
    /\ Begin(ConcatHtml(<<>>, args.texts, 1), args.fonts, args.fontpath,
             PyBool(args.verbose), FALSE)

\* one iteration of `for font in fonts` (lines 103-110)
SubsetFont ==
    /\ pc = "loop"
    /\ i <= Len(params.fonts)
    /\ LET font == params.fonts[i]
           assetdir == IF params.fontpath # "" THEN params.fontpath ELSE Dirname(font)
       IN  \E woff2_list \in Woff2Lists(uranges[2]) :
               /\ log' = Append(log, [font |-> font, uranges |-> uranges,
                                      assetdir |-> assetdir,
                                      verbosity |-> Verbosity(params.verbose),
                                      woff2_list |-> woff2_list])
               /\ IF ~AssertOneFile(woff2_list) \/ ~AssertPair(woff2_list)
                  THEN /\ outcome' = "AssertionError"
                       /\ pc' = "done"
                       /\ UNCHANGED <<res, i>>
                  ELSE /\ res' = Store(res, font, woff2_list)
                       /\ i' = i + 1
                       /\ UNCHANGED <<outcome, pc>>
    /\ UNCHANGED <<entry, args, params, uranges, sums>>
    /\ UNCHANGED rangeVars

\* the loop is over and verbosity is 0: return res (line 130)
Return ==
    /\ pc = "loop"
    /\ i > Len(params.fonts)
    /\ Verbosity(params.verbose) < 2
    /\ outcome' = "returned"
    /\ pc' = "done"
    /\ UNCHANGED <<entry, args, params, uranges, i, log, res, sums>>
    /\ UNCHANGED rangeVars

\* the loop is over and verbosity is 2: the size report (lines 117-127),
\* then return res
ReportAndReturn ==
    /\ pc = "loop"
    /\ i > Len(params.fonts)
    /\ Verbosity(params.verbose) >= 2
    /\ \E fontsize \in [Fonts -> Sizes], outsize \in [Outs -> Sizes] :
           \E keys \in Orderings({e[1] : e \in res}) :
               LET values == [k \in DOMAIN keys |->
                                 (CHOOSE e \in res : e[1] = keys[k])[2]]
                   sum_orig == GetFileSizeSum(fontsize, keys)
                   sum_new == GetFileSizeSum(outsize, values)
               IN  /\ sums' = <<sum_orig, sum_new>>
                   \* savings_percent = savings / sum_orig * 100
                   /\ outcome' = IF sum_orig = 0 THEN "ZeroDivisionError"
                                 ELSE "returned"
    /\ pc' = "done"
    /\ UNCHANGED <<entry, args, params, uranges, i, log, res>>
    /\ UNCHANGED rangeVars

NextOpt ==
    \/ CallOptimiseFonts
    \/ CallOptimiseFontsForMultipleText
    \/ CallOptimiseFontsForHtmlContents
    \/ SubsetFont
    \/ Return
    \/ ReportAndReturn

SpecOpt == InitOpt /\ [][NextOpt]_vars

(***************************************************************************)
(* Properties of the pure functions, checked under SpecRanges              *)
(***************************************************************************)
Distinct(list) == Cardinality(Elems(list)) = Len(list)

\* _get_char_ranges has been called on s
Ranged == op \in {"ranged", "formatted", "reranged"}

RECURSIVE RangeSizeSum(_)
RangeSizeSum(ranges) ==
    IF ranges = <<>> THEN 0
    ELSE (ranges[1][2] - ranges[1][1] + 1) + RangeSizeSum(Tail(ranges))

\* C1: for a list of distinct codepoints, the ranges returned by
\* _get_char_ranges cover exactly the codepoints of the list, nothing missing
\* and nothing extra, and their sizes (last - first + 1) add up to the number
\* of codepoints.
C1_UnionAndSize ==
    (Ranged /\ Distinct(s)) =>
        /\ char_ranges.raised = ""
        /\ \A x \in Elems(s) :
               \E k \in DOMAIN char_ranges.ranges :
                   char_ranges.ranges[k][1] <= x /\ x <= char_ranges.ranges[k][2]
        /\ \A k \in DOMAIN char_ranges.ranges :
               \A x \in char_ranges.ranges[k][1] .. char_ranges.ranges[k][2] :
                   x \in Elems(s)
        /\ RangeSizeSum(char_ranges.ranges) = Cardinality(Elems(s))

C1_Witness ==
    /\ Ranged /\ Distinct(s)
    /\ Len(s) >= 3
    /\ Len(char_ranges.ranges) = 2
    /\ \E k \in DOMAIN char_ranges.ranges :
           char_ranges.ranges[k][1] < char_ranges.ranges[k][2]

\* C2: for a list of distinct codepoints, every returned range has
\* first <= last, the ranges are in strictly ascending order of first, and
\* each range starts more than one codepoint after the previous one ends
\* (no overlap, no adjacency).
C2_AscendingNonAdjacent ==
    (Ranged /\ Distinct(s)) =>
        /\ \A k \in DOMAIN char_ranges.ranges :
               char_ranges.ranges[k][1] <= char_ranges.ranges[k][2]
        /\ \A k \in 1 .. Len(char_ranges.ranges) - 1 :
               /\ char_ranges.ranges[k][1] < char_ranges.ranges[k + 1][1]
               /\ char_ranges.ranges[k + 1][1] > char_ranges.ranges[k][2] + 1

C2_Witness ==
    /\ Ranged /\ Distinct(s)
    /\ Len(char_ranges.ranges) >= 3
    /\ s[1] > s[Len(s)]

\* C3: get_used_characters_in_str(s) is exactly the characters of s together
\* with the space character, for every s (the empty string and strings
\* without a space included).
C3_CollectorResult ==
    (op = "collected") =>
        /\ Space \in characters
        /\ \A k \in DOMAIN s : s[k] \in characters
        /\ \A x \in characters : x = Space \/ \E k \in DOMAIN s : s[k] = x

C3_Witness ==
    /\ op = "collected"
    /\ Len(s) >= 2
    /\ Space \notin Elems(s)
    /\ Cardinality(characters) = 2

\* C7: for a list of distinct codepoints, running _get_char_ranges on the
\* codepoints its own ranges cover returns an equal list of ranges: same
\* length, and charPair.__eq__ at every position.
C7_Idempotent ==
    (op = "reranged" /\ Distinct(s)) =>
        /\ again.raised = ""
        /\ Len(again.ranges) = Len(char_ranges.ranges)
        /\ \A k \in DOMAIN again.ranges : PairEq(again.ranges[k], char_ranges.ranges[k])

C7_Witness ==
    /\ op = "reranged" /\ Distinct(s)
    /\ Len(again.ranges) = 2
    /\ again.ranges[1][1] < again.ranges[1][2]
    /\ s[1] > s[2]

UpperHexChars == {"0", "1", "2", "3", "4", "5", "6", "7", "8", "9",
                  "A", "B", "C", "D", "E", "F"}

HexCharValue(ch) == CHOOSE v \in 0 .. 15 : UpperChar(HexDigits[v + 1]) = ch

RECURSIVE HexValue(_)
HexValue(digits) ==
    IF digits = <<>> THEN 0
    ELSE 16 * HexValue(SubSeq(digits, 1, Len(digits) - 1))
             + HexCharValue(digits[Len(digits)])

\* digits is codepoint cp in uppercase hexadecimal, zero-padded to 4 digits
\* and no further
IsHexOf(digits, cp) ==
    /\ Len(digits) >= 4
    /\ \A k \in DOMAIN digits : digits[k] \in UpperHexChars
    /\ HexValue(digits) = cp
    /\ (Len(digits) > 4) => (digits[1] # "0" /\ cp > 65535)

IsSingleToken(tok, cp) ==
    /\ Len(tok) >= 2
    /\ tok[1] = "U" /\ tok[2] = "+"
    /\ IsHexOf(SubSeq(tok, 3, Len(tok)), cp)

IsRangeToken(tok, pair) ==
    IF pair[1] = pair[2] THEN IsSingleToken(tok, pair[1])
    ELSE \E d \in DOMAIN tok :
             /\ tok[d] = "-"
             /\ IsSingleToken(SubSeq(tok, 1, d - 1), pair[1])
             /\ IsHexOf(SubSeq(tok, d + 1, Len(tok)), pair[2])

RECURSIVE TokenOffset(_, _)
TokenOffset(toks, k) ==
    IF k = 1 THEN 0 ELSE TokenOffset(toks, k - 1) + Len(toks[k - 1]) + 2

\* str is the tokens in order, a comma and a space between neighbours
IsCommaJoined(str, toks) ==
    /\ toks = <<>> => str = <<>>
    /\ toks # <<>> =>
           Len(str) = TokenOffset(toks, Len(toks)) + Len(toks[Len(toks)])
    /\ \A k \in DOMAIN toks :
           /\ SubSeq(str, TokenOffset(toks, k) + 1, TokenOffset(toks, k) + Len(toks[k]))
                  = toks[k]
           /\ k > 1 => /\ str[TokenOffset(toks, k) - 1] = ","
                       /\ str[TokenOffset(toks, k)] = " "

\* C8: get_range renders a one-codepoint range as "U+" and the codepoint in
\* uppercase hexadecimal zero-padded to at least 4 digits, any other range as
\* the token of first, "-", and the digits of last without "U+"; the range
\* expression is the tokens in range order joined by ", ".
C8_TokenFormat ==
    (op = "formatted") =>
        /\ Len(tokens) = Len(char_ranges.ranges)
        /\ \A k \in DOMAIN tokens : IsRangeToken(tokens[k], char_ranges.ranges[k])
        /\ IsCommaJoined(directive, tokens)
        /\ chars = <<97, 98, 99, 122>> =>
               directive = <<"U", "+", "0", "0", "6", "1", "-", "0", "0", "6", "3",
                             ",", " ", "U", "+", "0", "0", "7", "A">>
        /\ chars = <<65>> => directive = <<"U", "+", "0", "0", "4", "1">>

C8_Witness ==
    /\ op = "formatted"
    /\ chars = <<97, 98, 1114110, 1114111>>
    /\ directive = <<"U", "+", "0", "0", "6", "1", "-", "0", "0", "6", "2",
                     ",", " ", "U", "+", "1", "0", "F", "F", "F", "E", "-",
                     "1", "0", "F", "F", "F", "F">>

RECURSIVE Dedup(_)
Dedup(list) ==
    IF list = <<>> THEN <<>>
    ELSE LET front == SubSeq(list, 1, Len(list) - 1)
         IN  IF list[Len(list)] \in Elems(front) THEN Dedup(front)
             ELSE Append(Dedup(front), list[Len(list)])

\* C9: for every list of characters, repeats included, _get_char_ranges
\* returns what it returns for the list with the repeats removed; the result
\* has no overlapping ranges and no range twice.
C9_RepeatsIgnored ==
    Ranged =>
        /\ char_ranges = GetCharRanges(Dedup(s))
        /\ \A k \in 1 .. Len(char_ranges.ranges) - 1 :
               char_ranges.ranges[k][2] < char_ranges.ranges[k + 1][1]

(***************************************************************************)
(* Properties of optimise_fonts, checked under SpecOpt                     *)
(***************************************************************************)
\* the collaborator returned exactly one artifact, a [font, ranges] pair
OneArtifact(woff2_list) == Len(woff2_list) = 1 /\ Len(woff2_list[1]) = 2

\* C4: fonts are submitted to the collaborator one at a time in list order,
\* and a return of zero or of two or more artifacts ends the call at that
\* font with an assertion failure: it is the last submission, nothing was
\* returned, and no font was submitted twice or out of order.
C4_FatalAtFirstBadCount ==
    (pc \in {"loop", "done"}) =>
        /\ Len(log) <= Len(params.fonts)
        /\ \A k \in DOMAIN log : log[k].font = params.fonts[k]
        /\ \A k \in DOMAIN log :
               (Len(log[k].woff2_list) # 1) =>
                   /\ k = Len(log)
                   /\ pc = "done"
                   /\ outcome = "AssertionError"

C4_Witness ==
    /\ outcome = "AssertionError"
    /\ Len(log) = 1
    /\ Len(params.fonts) = 2
    /\ Len(log[1].woff2_list) = 2

\* the index of the last occurrence of font in fonts
LastIndex(fonts, font) ==
    CHOOSE k \in DOMAIN fonts :
        fonts[k] = font /\ \A j \in DOMAIN fonts : fonts[j] = font => j <= k

\* C5 as stated: the returned mapping has as many entries as font references
\* were supplied, each font mapped to the font the collaborator produced.
C5_OneEntryPerReference ==
    (outcome = "returned") =>
        /\ Cardinality(res) = Len(params.fonts)
        /\ \A k \in DOMAIN params.fonts :
               <<params.fonts[k], log[k].woff2_list[1][1]>> \in res

\* C5 as amended: the returned mapping has one entry per DISTINCT font
\* reference supplied, each mapped to the font the collaborator produced at
\* the last submission of that reference.
C5_OneEntryPerDistinctReference ==
    (outcome = "returned") =>
        /\ Len(log) = Len(params.fonts)
        /\ \A k \in DOMAIN log : OneArtifact(log[k].woff2_list)
        /\ Cardinality(res) = Cardinality(Elems(params.fonts))
        /\ {e[1] : e \in res} = Elems(params.fonts)
        /\ \A e \in res :
               e[2] = log[LastIndex(params.fonts, e[1])].woff2_list[1][1]

C5_Witness ==
    /\ outcome = "returned"
    /\ Len(params.fonts) = 2
    /\ params.fonts[1] = params.fonts[2]
    /\ log[1].woff2_list[1][1] # log[2].woff2_list[1][1]
    /\ Cardinality(res) = 1

\* C6: when the verbose report finds the original fonts' total size to be
\* zero, the division is guarded: no arithmetic fault, the mapping is returned.
C6_ZeroTotalGuarded ==
    (pc = "done" /\ Len(log) = Len(params.fonts) /\ outcome # "AssertionError"
        /\ Verbosity(params.verbose) >= 2 /\ sums[1] = 0)
        => outcome = "returned"

\* the text the entry point's first argument amounts to
EntryText ==
    CASE entry = "optimise_fonts" -> args.texts[1]
      [] entry = "optimise_fonts_for_multiple_text" -> ConcatTexts(<<>>, args.texts, 1)
      [] entry = "optimise_fonts_for_html_contents" -> ConcatHtml(<<>>, args.texts, 1)

\* C10: whichever entry point is called, the collaborator is handed what
\* optimise_fonts(concatenated text, fonts, fontpath, subsetname, verbose)
\* hands it: the caller's subsetname as label, the range expression of the
\* text, the same output directory, and the verbosity of the caller's flag.
C10_EntryPointsEquivalent ==
    \A k \in DOMAIN log :
        /\ log[k].uranges =
               Uranges(PyStr(args.subsetname),
                       Sort(SetToSeq(GetUsedCharactersInStr(EntryText))))
        /\ log[k].verbosity = Verbosity(args.verbose)
        /\ log[k].assetdir =
               (IF args.fontpath # "" THEN args.fontpath ELSE Dirname(args.fonts[k]))

====
